---- MODULE Spec2Model ----
(***************************************************************************)
(* RedGEM (src/pytfa/redgem/redgem.py): reduction of a metabolic network   *)
(* to its core subsystems plus the short paths connecting them.            *)
(*                                                                         *)
(* A network (gem) is a list of reactions; a reaction has an identifier,   *)
(* a subsystem tag and a metabolite -> coefficient map.  The graph has the *)
(* retained metabolites as nodes and, for every edge, one rxn_id.          *)
(* Python iterates a set of str in hash order, which differs from one      *)
(* process to the next: every search draws the order in which it iterates  *)
(* its sets (the source metabolites, the frontiers), and the order shows   *)
(* in the ancestor lists and in the memo of paths the search leaves.       *)
(***************************************************************************)
EXTENDS Integers, Sequences, FiniteSets, TLC

\* ------------------------------------------------------------------ bounds
MaxD == 3
MaxN == 2
MaxLevel == 2

\* ------------------------------------------------------ networks explored
MetOrder == <<"A", "B", "C", "D", "E", "F", "h", "atp", "pi">>

Range(s) == {s[i] : i \in DOMAIN s}

SetToSeq(S) ==
    LET keep(x) == x \in S
    IN  SelectSeq(MetOrder, keep)

\* The elements of the set S in the order the sequence order lists them.
InOrder(S, order) ==
    LET keep(x) == x \in S
    IN  SelectSeq(order, keep)

RECURSIVE Orderings(_)
Orderings(S) ==
    IF S = {} THEN {<<>>}
    ELSE UNION {{<<x>> \o rest : rest \in Orderings(S \ {x})} : x \in S}

\* The orders in which the sets of iterated can be iterated: every order of
\* the elements that share a set with another element; the place of the other
\* elements changes no iteration.
IterationOrders(iterated) ==
    LET tied == UNION {S \in iterated : Cardinality(S) >= 2}
    IN  {tie \o SetToSeq(Range(MetOrder) \ tied) : tie \in Orderings(tied)}

\* The order with x moved to its end.
MovedLast(order, x) == InOrder(Range(order) \ {x}, order) \o <<x>>

EmptyMap == [x \in {} |-> {}]

Put(f, key, val) == [x \in (DOMAIN f) \cup {key} |-> IF x = key THEN val ELSE f[x]]

Rxn(id, subsystem, metabolites) ==
    [id |-> id, subsystem |-> subsystem, metabolites |-> metabolites]

\* The reactions a network is drawn from, in the order the network lists them.
Pool ==
    << Rxn("rX",   "X", ("h" :> -1) @@ ("A" :> 1)),
       Rxn("rAB",  "Z", ("A" :> -1) @@ ("atp" :> -1) @@ ("B" :> 1) @@ ("pi" :> 1)),
       Rxn("rBC",  "Z", ("B" :> -1) @@ ("C" :> 1)),
       Rxn("rCD",  "Z", ("C" :> -1) @@ ("D" :> 1)),
       Rxn("rY",   "Y", ("D" :> -1) @@ ("h" :> 1)),
       Rxn("rAC",  "Z", ("A" :> -1) @@ ("C" :> 1)),
       Rxn("rBD",  "Z", ("B" :> -2) @@ ("D" :> 1)),
       Rxn("rAB2", "Y", ("A" :> -1) @@ ("B" :> 1)),
       Rxn("rE",   "T", ("E" :> -1) @@ ("A" :> 1)),
       Rxn("rF",   "T", ("F" :> -1) @@ ("pi" :> 1)),
       Rxn("rDA",  "Z", ("D" :> -1) @@ ("A" :> 1) @@ ("E" :> 1)) >>

ChainIds == {"rX", "rAB", "rBC", "rCD", "rY"}
ExtraGroups == {{"rAC"}, {"rBD"}, {"rAB2"}, {"rE", "rF", "rDA"}}

Network(ids) ==
    LET keep(r) == r.id \in ids
    IN  SelectSeq(Pool, keep)

Networks == {Network(ChainIds \cup UNION groups) : groups \in SUBSET ExtraGroups}

\* subsystem_names with core_subsystems: the same subsystems, fewer, others.
SubsystemChoices ==
    { [names |-> <<"X", "Y">>, core |-> {"X", "Y"}],
      [names |-> <<"Y", "Z">>, core |-> {"Y"}],
      [names |-> <<"X", "W">>, core |-> {"X", "Z"}] }
ExtracellularChoices == { <<>>, <<"E">>, <<"E", "A">> }

\* ------------------------------------------------------------------- state
VARIABLES
    gem,                    \* self._gem: the list of reactions
    redgem,                 \* self._redgem: [reactions, metabolites] identifier sets
    reduced_model,          \* self._reduced_model: the list of filtered reactions
    graph,                  \* self._graph: [nodes, edges], edges: <<a, b>> -> rxn_id
    subsystem_names, core_subsystems, cofactor_pairs, small_metabolites,
    inorganics, d, n, extracellular_system,
    rcore,                  \* self._rcore (as reaction identifiers)
    subsystem_reactions_id, subsystem_metabolites_id,
    intermediate_reactions_id, intermediate_metabolites_id, intermediate_paths,
    min_distance_sub_to_sub,
    intermediate_extracellular_paths, intermediate_extracellular_metabolites_id,
    intermediate_extracellular_reactions_id,
    path_dict,              \* self._path_dict: the path memo
    to_remove_reactions, to_remove_metabolites,   \* the sets extract_sub_network prints
    pc, loop,               \* position in run() and in its loops
    error,                  \* the exception that ended the run, or "none"
    call                    \* arguments and result of a direct retrieve_all_paths call

config == <<subsystem_names, core_subsystems, cofactor_pairs, small_metabolites,
            inorganics, d, n, extracellular_system>>

pairwise == <<intermediate_reactions_id, intermediate_metabolites_id, intermediate_paths>>

extracellular == <<intermediate_extracellular_paths,
                   intermediate_extracellular_metabolites_id,
                   intermediate_extracellular_reactions_id>>

removed == <<to_remove_reactions, to_remove_metabolites>>

vars == <<gem, redgem, reduced_model, graph, config, rcore,
          subsystem_reactions_id, subsystem_metabolites_id, pairwise,
          min_distance_sub_to_sub, extracellular, path_dict, removed,
          pc, loop, error, call>>

Names == Range(subsystem_names)

\* ---------------------------------------------------------- the network
GemReactionIds(g) == {g[i].id : i \in DOMAIN g}

GemMetaboliteIds(g) == UNION {DOMAIN g[i].metabolites : i \in DOMAIN g}

Ignorable(metabolite_id) ==
    \/ metabolite_id \in cofactor_pairs
    \/ metabolite_id \in small_metabolites
    \/ metabolite_id \in inorganics

\* __init__: the nested result structures, every cell an empty set.
dict_of_lists_of_sets(names, dd) == [s \in names |-> [k \in 0..dd |-> {}]]

dict_of_dicts_of_lists_of_sets(names, dd) ==
    [s \in names |-> dict_of_lists_of_sets(names, dd)]

dict_of_dicts_of_int(names) == [s \in names |-> [t \in names |-> -1]]

NoCall == [made |-> FALSE, dest_node |-> "", src_node |-> "", ancestors |-> EmptyMap,
           paths |-> <<>>]

InitWith(g, names, core, dd, nn, ext) ==
    /\ gem = g
    /\ redgem = [reactions |-> GemReactionIds(g), metabolites |-> GemMetaboliteIds(g)]
    /\ reduced_model = <<>>
    /\ graph = [nodes |-> {}, edges |-> <<>>]
    /\ subsystem_names = names
    /\ core_subsystems = core
    /\ cofactor_pairs = {"atp"}
    /\ small_metabolites = {"h"}
    /\ inorganics = {"pi"}
    /\ d = dd
    /\ n = nn
    /\ extracellular_system = ext
    /\ rcore = {}
    /\ subsystem_reactions_id = EmptyMap
    /\ subsystem_metabolites_id = EmptyMap
    /\ intermediate_reactions_id = dict_of_dicts_of_lists_of_sets(Range(names), dd)
    /\ intermediate_metabolites_id = dict_of_dicts_of_lists_of_sets(Range(names), dd)
    /\ intermediate_paths = dict_of_dicts_of_lists_of_sets(Range(names), dd)
    /\ min_distance_sub_to_sub = dict_of_dicts_of_int(Range(names))
    /\ intermediate_extracellular_paths = dict_of_lists_of_sets(Range(names), dd)
    /\ intermediate_extracellular_metabolites_id = dict_of_lists_of_sets(Range(names), dd)
    /\ intermediate_extracellular_reactions_id = dict_of_lists_of_sets(Range(names), dd)
    /\ path_dict = EmptyMap
    /\ to_remove_reactions = {}
    /\ to_remove_metabolites = {}
    /\ loop = [i |-> 1, j |-> 1, k |-> 0]
    /\ error = "none"

Init ==
    /\ \E g \in Networks, sub \in SubsystemChoices,
          dd \in 0..MaxD, nn \in 0..MaxN, ext \in ExtracellularChoices :
           InitWith(g, sub.names, sub.core, dd, nn, ext)
    /\ pc = "create_new_stoichiometric_matrix"
    /\ call = NoCall

\* ------------------------------------------ create_new_stoichiometric_matrix
\* The reaction with the ignorable species dropped from its metabolites.
new_rxn(rxn) ==
    [id |-> rxn.id, subsystem |-> rxn.subsystem,
     metabolites |-> [m \in {x \in DOMAIN rxn.metabolites : ~Ignorable(x)}
                        |-> rxn.metabolites[m]]]

kept_rxns(g) == [i \in DOMAIN g |-> new_rxn(g[i])]

kept_metabolites(g) == {m \in GemMetaboliteIds(g) : ~Ignorable(m)}

reactants(rxn) == {m \in DOMAIN rxn.metabolites : rxn.metabolites[m] < 0}

products(rxn) == {m \in DOMAIN rxn.metabolites : rxn.metabolites[m] >= 0}

\* Mutant of add_edges: an existing edge keeps its rxn_id.
add_edges_first_wins(edges, rxn) ==
    LET new == reactants(rxn) \X products(rxn)
    IN  [e \in (DOMAIN edges) \cup new |->
            IF e \in DOMAIN edges THEN edges[e] ELSE rxn.id]

\* add_edge on an existing edge overwrites its rxn_id.
add_edges(edges, rxn) ==
    LET new == reactants(rxn) \X products(rxn)
    IN  [e \in (DOMAIN edges) \cup new |-> IF e \in new THEN rxn.id ELSE edges[e]]

RECURSIVE add_all_edges(_, _, _)
add_all_edges(edges, rxns, i) ==
    IF i > Len(rxns) THEN edges
    ELSE add_all_edges(add_edges(edges, rxns[i]), rxns, i + 1)

build_graph(g) ==
    [nodes |-> kept_metabolites(g),
     edges |-> add_all_edges([e \in {} |-> ""], kept_rxns(g), 1)]

PcAfterCreate == IF Len(subsystem_names) = 0 THEN "extract_sub_network"
                 ELSE "extract_subsystems"

create_new_stoichiometric_matrix ==
    /\ pc = "create_new_stoichiometric_matrix"
    /\ reduced_model' = kept_rxns(gem)
    /\ graph' = build_graph(gem)
    /\ pc' = PcAfterCreate
    /\ loop' = [i |-> 1, j |-> 1, k |-> 0]
    /\ UNCHANGED <<gem, redgem, config, rcore, subsystem_reactions_id,
                   subsystem_metabolites_id, pairwise, min_distance_sub_to_sub,
                   extracellular, path_dict, removed, error, call>>

\* --------------------------------------------- run_between_all_subsystems
extract_subsystem_reactions(g, subsystem) ==
    {g[i].id : i \in {x \in DOMAIN g : g[x].subsystem = subsystem}}

extract_subsystem_metabolites(g, rxns_id) ==
    {m \in UNION {DOMAIN g[i].metabolites : i \in {x \in DOMAIN g : g[x].id \in rxns_id}} :
        ~Ignorable(m)}

PcAfterExtractSubsystems == IF loop.i < Len(subsystem_names) THEN "extract_subsystems"
                            ELSE "run_between_all_subsystems"

\* One pass of the first loop of run_between_all_subsystems.
extract_subsystem ==
    /\ pc = "extract_subsystems"
    /\ LET subsystem == subsystem_names[loop.i]
           rxns_id == extract_subsystem_reactions(gem, subsystem)
       IN  /\ subsystem_reactions_id' = Put(subsystem_reactions_id, subsystem, rxns_id)
           /\ subsystem_metabolites_id' =
                  Put(subsystem_metabolites_id, subsystem,
                      extract_subsystem_metabolites(gem, rxns_id))
    /\ pc' = PcAfterExtractSubsystems
    /\ loop' = IF loop.i < Len(subsystem_names) THEN [loop EXCEPT !.i = loop.i + 1]
               ELSE [i |-> 1, j |-> 1, k |-> 0]
    /\ UNCHANGED <<gem, redgem, reduced_model, graph, config, rcore, pairwise,
                   min_distance_sub_to_sub, extracellular, path_dict, removed,
                   error, call>>

adj(node) == {b \in graph.nodes : <<node, b>> \in DOMAIN graph.edges}

\* Mutants of is_node_allowed: the last step may land anywhere; the source
\* subsystem may be entered again.
is_node_allowed_any_landing(node, i, explored, subsystem_i, subsystem_j, dd) ==
    IF node \in explored THEN FALSE
    ELSE IF subsystem_i # subsystem_j /\ node \in subsystem_metabolites_id[subsystem_i]
         THEN FALSE
    ELSE IF i < dd - 1 /\ node \in subsystem_metabolites_id[subsystem_j] THEN FALSE
    ELSE TRUE

is_node_allowed_reentering(node, i, explored, subsystem_i, subsystem_j, dd) ==
    IF node \in explored THEN FALSE
    ELSE IF i < dd - 1 /\ node \in subsystem_metabolites_id[subsystem_j] THEN FALSE
    ELSE IF i = dd - 1 /\ node \notin subsystem_metabolites_id[subsystem_j] THEN FALSE
    ELSE TRUE

is_node_allowed(node, i, explored, subsystem_i, subsystem_j, dd) ==
    IF node \in explored THEN FALSE
    ELSE IF subsystem_i # subsystem_j /\ node \in subsystem_metabolites_id[subsystem_i]
         THEN FALSE
    ELSE IF i < dd - 1 /\ node \in subsystem_metabolites_id[subsystem_j] THEN FALSE
    ELSE IF i = dd - 1 /\ node \notin subsystem_metabolites_id[subsystem_j] THEN FALSE
    ELSE TRUE

\* Mutant of record_ancestors: a node keeps only the last frontier node that
\* found it.
record_ancestors_single(ancestors, frontier, new_nodes, order) ==
    [v \in (DOMAIN ancestors) \cup new_nodes |->
        IF v \in new_nodes
        THEN LET finds(u) == u \in frontier /\ v \in adj(u)
                 found == SelectSeq(order, finds)
             IN  <<found[Len(found)]>>
        ELSE ancestors[v]]

\* The ancestor lists after one expansion step: every admitted node gets the
\* frontier nodes it is a successor of, in the order the frontier is iterated.
record_ancestors(ancestors, frontier, new_nodes, order) ==
    [v \in (DOMAIN ancestors) \cup new_nodes |->
        IF v \in new_nodes
        THEN LET finds(u) == u \in frontier /\ v \in adj(u)
             IN  (IF v \in DOMAIN ancestors THEN ancestors[v] ELSE <<>>)
                     \o SelectSeq(order, finds)
        ELSE ancestors[v]]

\* Mutant of expand_subsystems: the admitted nodes are not added to explored.
expand_subsystems_not_marking(s, i, subsystem_i, subsystem_j, dd, order) ==
    LET new_nodes == {v \in UNION {adj(u) : u \in s.frontier} :
                        is_node_allowed(v, i, s.explored, subsystem_i, subsystem_j, dd)}
    IN  [frontier |-> new_nodes,
         explored |-> s.explored,
         ancestors |-> record_ancestors(s.ancestors, s.frontier, new_nodes, order)]

\* One pass of the loop "for i in range(d)" of breadth_search_subsystems_paths_length_d.
expand_subsystems(s, i, subsystem_i, subsystem_j, dd, order) ==
    LET new_nodes == {v \in UNION {adj(u) : u \in s.frontier} :
                        is_node_allowed(v, i, s.explored, subsystem_i, subsystem_j, dd)}
    IN  [frontier |-> new_nodes,
         explored |-> s.explored \cup new_nodes,
         ancestors |-> record_ancestors(s.ancestors, s.frontier, new_nodes, order)]

RECURSIVE search_subsystems(_, _, _, _, _, _)
search_subsystems(s, i, subsystem_i, subsystem_j, dd, order) ==
    IF i >= dd THEN s
    ELSE search_subsystems(expand_subsystems(s, i, subsystem_i, subsystem_j, dd, order),
                           i + 1, subsystem_i, subsystem_j, dd, order)

\* The frontiers the loop "for i in range(d)" iterates, and the last one.
RECURSIVE frontiers_subsystems(_, _, _, _, _)
frontiers_subsystems(s, i, subsystem_i, subsystem_j, dd) ==
    IF i >= dd THEN {s.frontier}
    ELSE {s.frontier} \cup
         frontiers_subsystems(expand_subsystems(s, i, subsystem_i, subsystem_j, dd, MetOrder),
                              i + 1, subsystem_i, subsystem_j, dd)

BfsStart(metabolite_id) ==
    [frontier |-> {metabolite_id}, explored |-> {metabolite_id}, ancestors |-> EmptyMap]

\* ------------------------------------------------------ retrieve_all_paths
RECURSIVE retrieve_all_paths(_, _, _, _, _)
RECURSIVE extend_paths(_, _, _, _, _, _)

\* Mutant of extend_paths: only the first ancestor is followed.
extend_paths_first_ancestor(dest_node, src_node, ancestors, p, new_paths, memo) ==
    IF p > 1 THEN [paths |-> new_paths, memo |-> memo]
    ELSE LET r == retrieve_all_paths(ancestors[dest_node][p], src_node, ancestors,
                                     FALSE, memo)
             longer == [q \in DOMAIN r.paths |-> Append(r.paths[q], dest_node)]
         IN  extend_paths(dest_node, src_node, ancestors, p + 1,
                          new_paths \o longer, r.memo)

\* The loop over ancestors[dest_node], from its p-th entry on.
extend_paths(dest_node, src_node, ancestors, p, new_paths, memo) ==
    IF p > Len(ancestors[dest_node]) THEN [paths |-> new_paths, memo |-> memo]
    ELSE LET r == retrieve_all_paths(ancestors[dest_node][p], src_node, ancestors,
                                     FALSE, memo)
             longer == [q \in DOMAIN r.paths |-> Append(r.paths[q], dest_node)]
         IN  extend_paths(dest_node, src_node, ancestors, p + 1,
                          new_paths \o longer, r.memo)

\* Mutant of retrieve_all_paths: the memo of the call before is kept.
retrieve_all_paths_keeping_memo(dest_node, src_node, ancestors, init_dict, memo) ==
    LET m2 == IF dest_node = src_node THEN Put(memo, dest_node, << <<src_node>> >>)
              ELSE memo
    IN  IF dest_node \in DOMAIN m2 THEN [paths |-> m2[dest_node], memo |-> m2]
        ELSE LET r == extend_paths(dest_node, src_node, ancestors, 1, <<>>, m2)
             IN  [paths |-> r.paths, memo |-> Put(r.memo, dest_node, r.paths)]

\* Returns the list of paths and the memo (self._path_dict) the call leaves.
retrieve_all_paths(dest_node, src_node, ancestors, init_dict, memo) ==
    LET m1 == IF init_dict THEN EmptyMap ELSE memo
        m2 == IF dest_node = src_node THEN Put(m1, dest_node, << <<src_node>> >>) ELSE m1
    IN  IF dest_node \in DOMAIN m2 THEN [paths |-> m2[dest_node], memo |-> m2]
        ELSE LET r == extend_paths(dest_node, src_node, ancestors, 1, <<>>, m2)
             IN  [paths |-> r.paths, memo |-> Put(r.memo, dest_node, r.paths)]

\* ------------------------- retrieve_intermediate_metabolites_and_reactions
\* Mutant of path_reactions: every edge that leaves a node of the path counts.
path_reactions_by_reactant(paths) ==
    UNION {{graph.edges[e] : e \in {x \in DOMAIN graph.edges :
                                       \E i \in 1..(Len(path) - 1) : x[1] = path[i]}} :
              path \in Range(paths)}

path_reactions(paths) ==
    UNION {{graph.edges[<<path[i], path[i + 1]>>] : i \in 1..(Len(path) - 1)} :
              path \in Range(paths)}

\* Mutant of path_metabolites: the end points are recorded too.
path_metabolites_with_ends(paths) ==
    UNION {{path[i] : i \in 1..Len(path)} : path \in Range(paths)}

\* Python's i > 0 and i < len(path) - 1 are the positions 2..Len(path)-1 here.
path_metabolites(paths) ==
    UNION {{path[i] : i \in 2..(Len(path) - 1)} : path \in Range(paths)}

\* acc: the cell's [paths, reactions, metabolites] and the memo.
retrieve_intermediate_metabolites_and_reactions(paths, acc) ==
    [acc EXCEPT !.reactions = @ \cup path_reactions(paths),
                !.metabolites = @ \cup path_metabolites(paths)]

\* The loop "for node in frontier", from the p-th frontier node on.
RECURSIVE save_paths(_, _, _, _, _)
save_paths(frontier, p, metabolite_id, ancestors, acc) ==
    IF p > Len(frontier) THEN acc
    ELSE LET r == retrieve_all_paths(frontier[p], metabolite_id, ancestors, TRUE, acc.memo)
             a1 == [acc EXCEPT !.paths = @ \cup Range(r.paths), !.memo = r.memo]
         IN  save_paths(frontier, p + 1, metabolite_id, ancestors,
                        retrieve_intermediate_metabolites_and_reactions(r.paths, a1))

\* Mutant of search_from: the d = 0 case is not handled.
search_from_without_depth_0(metabolite_id, subsystem_i, subsystem_j, dd, order, acc) ==
    LET s == search_subsystems(BfsStart(metabolite_id), 0, subsystem_i, subsystem_j, dd,
                               order)
    IN  save_paths(InOrder(s.frontier, order), 1, metabolite_id, s.ancestors, acc)

\* The body of the loop over the source metabolites of subsystem_i.
search_from(metabolite_id, subsystem_i, subsystem_j, dd, order, acc) ==
    LET s == search_subsystems(BfsStart(metabolite_id), 0, subsystem_i, subsystem_j, dd,
                               order)
        frontier == IF dd = 0 /\ metabolite_id \notin subsystem_metabolites_id[subsystem_j]
                    THEN {} ELSE s.frontier
    IN  save_paths(InOrder(frontier, order), 1, metabolite_id, s.ancestors, acc)

RECURSIVE search_from_all(_, _, _, _, _, _, _)
search_from_all(sources, p, subsystem_i, subsystem_j, dd, order, acc) ==
    IF p > Len(sources) THEN acc
    ELSE search_from_all(sources, p + 1, subsystem_i, subsystem_j, dd, order,
                         search_from(sources[p], subsystem_i, subsystem_j, dd, order, acc))

\* The sources whose search ends with a frontier that is not empty.  The
\* search from any other source runs no pass of the loop of line 225 and
\* leaves nothing behind: its ancestors, frontier and explored are locals.
reaching_sources(subsystem_i, subsystem_j, dd) ==
    {m \in subsystem_metabolites_id[subsystem_i] :
        /\ ~(dd = 0 /\ m \notin subsystem_metabolites_id[subsystem_j])
        /\ search_subsystems(BfsStart(m), 0, subsystem_i, subsystem_j, dd,
                             MetOrder).frontier # {}}

\* The iteration orders of one call, up to what the call leaves.  The sets a
\* cell receives are unions, the same in every order; the memo is reset by
\* every top-level retrieve_all_paths (line 248), so that the one the call
\* leaves is that of the source iterated last among those that reach a node,
\* in the order its own frontiers were iterated.  Every such source comes
\* last in some order, with every order of its frontiers.
iteration_orders_subsystems(subsystem_i, subsystem_j, dd) ==
    LET reaching == reaching_sources(subsystem_i, subsystem_j, dd)
    IN  IF reaching = {} THEN {MetOrder}
        ELSE UNION {{MovedLast(order, m) :
                        order \in IterationOrders(
                            frontiers_subsystems(BfsStart(m), 0, subsystem_i,
                                                 subsystem_j, dd))} :
                    m \in reaching}

PairCell(subsystem_i, subsystem_j, dd) ==
    [paths |-> intermediate_paths[subsystem_i][subsystem_j][dd],
     reactions |-> intermediate_reactions_id[subsystem_i][subsystem_j][dd],
     metabolites |-> intermediate_metabolites_id[subsystem_i][subsystem_j][dd],
     memo |-> path_dict]

NextPairLoop ==
    IF loop.k < d THEN [loop EXCEPT !.k = loop.k + 1]
    ELSE IF loop.j < Len(subsystem_names) THEN [loop EXCEPT !.j = loop.j + 1, !.k = 0]
    ELSE IF loop.i < Len(subsystem_names) THEN [i |-> loop.i + 1, j |-> 1, k |-> 0]
    ELSE [i |-> 1, j |-> 1, k |-> 0]

PairLoopDone ==
    loop.k = d /\ loop.j = Len(subsystem_names) /\ loop.i = Len(subsystem_names)

\* One call of the triple loop of run_between_all_subsystems.
breadth_search_subsystems_paths_length_d ==
    /\ pc = "run_between_all_subsystems"
    /\ \E order \in iteration_orders_subsystems(subsystem_names[loop.i],
                                                subsystem_names[loop.j], loop.k) :
       LET subsystem_i == subsystem_names[loop.i]
           subsystem_j == subsystem_names[loop.j]
           acc == search_from_all(InOrder(subsystem_metabolites_id[subsystem_i], order), 1,
                                  subsystem_i, subsystem_j, loop.k, order,
                                  PairCell(subsystem_i, subsystem_j, loop.k))
       IN  /\ intermediate_paths' =
                  [intermediate_paths EXCEPT ![subsystem_i][subsystem_j][loop.k] = acc.paths]
           /\ intermediate_reactions_id' =
                  [intermediate_reactions_id EXCEPT
                      ![subsystem_i][subsystem_j][loop.k] = acc.reactions]
           /\ intermediate_metabolites_id' =
                  [intermediate_metabolites_id EXCEPT
                      ![subsystem_i][subsystem_j][loop.k] = acc.metabolites]
           /\ path_dict' = acc.memo
    /\ pc' = IF PairLoopDone THEN "run_extracellular_system" ELSE pc
    /\ loop' = NextPairLoop
    /\ UNCHANGED <<gem, redgem, reduced_model, graph, config, rcore,
                   subsystem_reactions_id, subsystem_metabolites_id,
                   min_distance_sub_to_sub, extracellular, removed, error, call>>

\* ---------------------------------------------- run_extracellular_system
\* Mutant of is_node_allowed_extracellular: the extracellular set may be entered again.
is_node_allowed_extracellular_reentering(node, i, explored, subsystem, nn) ==
    IF node \in explored THEN FALSE
    ELSE IF i < nn - 1 /\ node \in subsystem_metabolites_id[subsystem] THEN FALSE
    ELSE IF i = nn - 1 /\ node \notin subsystem_metabolites_id[subsystem] THEN FALSE
    ELSE TRUE

is_node_allowed_extracellular(node, i, explored, subsystem, nn) ==
    IF node \in explored THEN FALSE
    ELSE IF node \in Range(extracellular_system) THEN FALSE
    ELSE IF i < nn - 1 /\ node \in subsystem_metabolites_id[subsystem] THEN FALSE
    ELSE IF i = nn - 1 /\ node \notin subsystem_metabolites_id[subsystem] THEN FALSE
    ELSE TRUE

expand_extracellular(s, i, subsystem, nn, order) ==
    LET new_nodes == {v \in UNION {adj(u) : u \in s.frontier} :
                        is_node_allowed_extracellular(v, i, s.explored, subsystem, nn)}
    IN  [frontier |-> new_nodes,
         explored |-> s.explored \cup new_nodes,
         ancestors |-> record_ancestors(s.ancestors, s.frontier, new_nodes, order)]

RECURSIVE search_extracellular(_, _, _, _, _)
search_extracellular(s, i, subsystem, nn, order) ==
    IF i >= nn THEN s
    ELSE search_extracellular(expand_extracellular(s, i, subsystem, nn, order),
                              i + 1, subsystem, nn, order)

\* The frontiers the loop "for i in range(n)" iterates, and the last one.
RECURSIVE frontiers_extracellular(_, _, _, _)
frontiers_extracellular(s, i, subsystem, nn) ==
    IF i >= nn THEN {s.frontier}
    ELSE {s.frontier} \cup
         frontiers_extracellular(expand_extracellular(s, i, subsystem, nn, MetOrder),
                                 i + 1, subsystem, nn)

retrieve_intermediate_extracellular_metabolites_and_reactions(paths, acc) ==
    [acc EXCEPT !.reactions = @ \cup path_reactions(paths),
                !.metabolites = @ \cup path_metabolites(paths)]

\* The loop "for node in frontier"; the cell [subsystem][n] of a list of d+1
\* sets does not exist when n > d, and reading it raises IndexError.
RECURSIVE save_extracellular_paths(_, _, _, _, _, _)
save_extracellular_paths(frontier, p, metabolite_id, ancestors, nn, acc) ==
    IF p > Len(frontier) \/ acc.error # "none" THEN acc
    ELSE LET r == retrieve_all_paths(frontier[p], metabolite_id, ancestors, TRUE, acc.memo)
             a1 == [acc EXCEPT !.memo = r.memo]
             a2 == [a1 EXCEPT !.paths = @ \cup Range(r.paths)]
         IN  IF nn > d THEN [a1 EXCEPT !.error = "IndexError"]
             ELSE save_extracellular_paths(frontier, p + 1, metabolite_id, ancestors, nn,
                      retrieve_intermediate_extracellular_metabolites_and_reactions(
                          r.paths, a2))

\* The body of the loop over the extracellular metabolites; the adjacency of a
\* metabolite that is no node of the graph raises KeyError.
search_extracellular_from(metabolite_id, subsystem, nn, order, acc) ==
    IF acc.error # "none" THEN acc
    ELSE IF nn > 0 /\ metabolite_id \notin graph.nodes THEN [acc EXCEPT !.error = "KeyError"]
    ELSE LET s == search_extracellular(BfsStart(metabolite_id), 0, subsystem, nn, order)
             frontier == IF nn = 0 /\ metabolite_id \notin subsystem_metabolites_id[subsystem]
                         THEN {} ELSE s.frontier
         IN  save_extracellular_paths(InOrder(frontier, order), 1, metabolite_id,
                                      s.ancestors, nn, acc)

RECURSIVE search_extracellular_from_all(_, _, _, _, _, _)
search_extracellular_from_all(sources, p, subsystem, nn, order, acc) ==
    IF p > Len(sources) THEN acc
    ELSE search_extracellular_from_all(sources, p + 1, subsystem, nn, order,
             search_extracellular_from(sources[p], subsystem, nn, order, acc))

\* The iteration orders of one call, up to what the call leaves: the sources
\* are a list, iterated as given, and the memo left is that of one source, in
\* the order its own frontiers were iterated.
iteration_orders_extracellular(subsystem, nn) ==
    {MetOrder} \cup
    UNION {IterationOrders(frontiers_extracellular(BfsStart(m), 0, subsystem, nn)) :
              m \in Range(extracellular_system)}

ExtracellularCell(subsystem, nn) ==
    [paths |-> IF nn <= d THEN intermediate_extracellular_paths[subsystem][nn] ELSE {},
     reactions |-> IF nn <= d THEN intermediate_extracellular_reactions_id[subsystem][nn]
                   ELSE {},
     metabolites |-> IF nn <= d THEN intermediate_extracellular_metabolites_id[subsystem][nn]
                     ELSE {},
     memo |-> path_dict,
     error |-> "none"]

NextExtracellularLoop ==
    IF loop.k < n THEN [loop EXCEPT !.k = loop.k + 1]
    ELSE IF loop.i < Len(subsystem_names) THEN [loop EXCEPT !.i = loop.i + 1, !.k = 0]
    ELSE [i |-> 1, j |-> 1, k |-> 0]

ExtracellularLoopDone == loop.k = n /\ loop.i = Len(subsystem_names)

StoreCell(cells, subsystem, nn, val) ==
    IF nn <= d THEN [cells EXCEPT ![subsystem][nn] = val] ELSE cells

\* One call of the double loop of run_extracellular_system.
breadth_search_extracellular_system_paths ==
    /\ pc = "run_extracellular_system"
    /\ \E order \in iteration_orders_extracellular(subsystem_names[loop.i], loop.k) :
       LET subsystem == subsystem_names[loop.i]
           acc == search_extracellular_from_all(extracellular_system, 1, subsystem, loop.k,
                                                order, ExtracellularCell(subsystem, loop.k))
       IN  /\ intermediate_extracellular_paths' =
                  StoreCell(intermediate_extracellular_paths, subsystem, loop.k, acc.paths)
           /\ intermediate_extracellular_reactions_id' =
                  StoreCell(intermediate_extracellular_reactions_id, subsystem, loop.k,
                            acc.reactions)
           /\ intermediate_extracellular_metabolites_id' =
                  StoreCell(intermediate_extracellular_metabolites_id, subsystem, loop.k,
                            acc.metabolites)
           /\ path_dict' = acc.memo
           /\ error' = acc.error
           /\ pc' = IF acc.error # "none" THEN "error"
                    ELSE IF ExtracellularLoopDone THEN "extract_sub_network"
                    ELSE pc
           /\ loop' = IF acc.error # "none" THEN loop ELSE NextExtracellularLoop
    /\ UNCHANGED <<gem, redgem, reduced_model, graph, config, rcore,
                   subsystem_reactions_id, subsystem_metabolites_id, pairwise,
                   min_distance_sub_to_sub, removed, call>>

\* ----------------------------------------------------- extract_sub_network
kept_subsystem_reactions == UNION {subsystem_reactions_id[name] : name \in Names}

kept_subsystem_metabolites == UNION {subsystem_metabolites_id[name] : name \in Names}

kept_intermediate(cells) ==
    UNION {cells[i][j][k] : i \in Names, j \in Names, k \in 0..d}

\* The loop of lines 372-377 runs k over range(d+1).
kept_extracellular(cells) == UNION {cells[i][k] : i \in Names, k \in 0..d}

ReactionMetabolites(rxn_ids) ==
    UNION {DOMAIN gem[i].metabolites : i \in {x \in DOMAIN gem : gem[x].id \in rxn_ids}}

\* Mutant of remove_reactions: every metabolite of a removed reaction is
\* removed with it.
remove_reactions_with_metabolites(model, reactions, remove_orphans) ==
    [reactions |-> model.reactions \ reactions,
     metabolites |-> model.metabolites
                         \ ReactionMetabolites(model.reactions \cap reactions)]

\* Model.remove_reactions(reactions, remove_orphans): with remove_orphans a
\* metabolite left in no reaction by the removal is removed with it.
remove_reactions(model, reactions, remove_orphans) ==
    LET left == model.reactions \ reactions
        orphans == ReactionMetabolites(model.reactions \cap reactions)
                       \ ReactionMetabolites(left)
    IN  [reactions |-> left,
         metabolites |-> IF remove_orphans THEN model.metabolites \ orphans
                         ELSE model.metabolites]

extract_sub_network ==
    /\ pc = "extract_sub_network"
    /\ LET rm_reactions ==
               ((GemReactionIds(gem) \ kept_subsystem_reactions)
                    \ kept_intermediate(intermediate_reactions_id))
                    \ kept_extracellular(intermediate_extracellular_reactions_id)
           rm_metabolites ==
               (((GemMetaboliteIds(gem) \ kept_subsystem_metabolites)
                    \ kept_intermediate(intermediate_metabolites_id))
                    \ Range(extracellular_system))
                    \ kept_extracellular(intermediate_extracellular_metabolites_id)
       IN  /\ to_remove_reactions' = rm_reactions
           /\ to_remove_metabolites' = rm_metabolites
           /\ redgem' = remove_reactions(redgem, rm_reactions, TRUE)
    /\ pc' = "done"
    /\ UNCHANGED <<gem, reduced_model, graph, config, rcore, subsystem_reactions_id,
                   subsystem_metabolites_id, pairwise, min_distance_sub_to_sub,
                   extracellular, path_dict, loop, error, call>>

\* -------------------------------------- find_min_distance_between_subsystems
\* Mutant of first_depth_with_paths: the scan does not stop at the first depth.
last_depth_with_paths(i, j) ==
    LET found == {k \in 0..d : intermediate_paths[i][j][k] # {}}
    IN  IF found = {} THEN min_distance_sub_to_sub[i][j]
        ELSE CHOOSE k \in found : \A other \in found : k >= other

first_depth_with_paths(i, j) ==
    LET found == {k \in 0..d : intermediate_paths[i][j][k] # {}}
    IN  IF found = {} THEN min_distance_sub_to_sub[i][j]
        ELSE CHOOSE k \in found : \A other \in found : k <= other

\* The points between two of the calls run() makes, and after run().
BetweenCalls ==
    \/ pc \in {"create_new_stoichiometric_matrix", "extract_sub_network", "done", "error"}
    \/ pc = "extract_subsystems" /\ loop.i = 1
    \/ pc = "run_extracellular_system" /\ loop.i = 1 /\ loop.k = 0

\* Not called by run(); a caller calls it between the steps of a run or after.
find_min_distance_between_subsystems ==
    /\ BetweenCalls
    /\ min_distance_sub_to_sub' =
           [i \in Names |-> [j \in Names |-> first_depth_with_paths(i, j)]]
    /\ UNCHANGED <<gem, redgem, reduced_model, graph, config, rcore,
                   subsystem_reactions_id, subsystem_metabolites_id, pairwise,
                   extracellular, path_dict, removed, pc, loop, error, call>>

\* ---------------------------------------------------- extract_core_reactions
core_reactions(g, core) == {g[i].id : i \in {x \in DOMAIN g : g[x].subsystem \in core}}

\* Not called by run() and without any condition: a caller calls it before
\* the run, between two of the calls run() makes, or after.
extract_core_reactions ==
    /\ BetweenCalls
    /\ rcore' = rcore \cup core_reactions(gem, core_subsystems)
    /\ UNCHANGED <<gem, redgem, reduced_model, graph, config,
                   subsystem_reactions_id, subsystem_metabolites_id, pairwise,
                   min_distance_sub_to_sub, extracellular, path_dict, removed,
                   pc, loop, error, call>>

\* ------------------------------------- a direct call of retrieve_all_paths
\* The ancestors maps a search hands to retrieve_all_paths: the source has no
\* ancestors and every other listed node has a non-empty list, without
\* repetition, of nodes of the level just before its own.
EnumNodes == {"A", "B", "C", "D"}

RECURSIVE Levelled(_, _, _, _)
\* The nodes of the levels 0..MaxLevel: `before` are those of level lv - 1,
\* `seen` those of all levels below lv.
Levelled(anc_sets, before, seen, lv) ==
    LET here == {v \in EnumNodes \ seen :
                    anc_sets[v] # {} /\ anc_sets[v] \subseteq before}
    IN  IF here = {} \/ lv > MaxLevel THEN seen
        ELSE Levelled(anc_sets, here, seen \cup here, lv + 1)

AncestorSets(src_node) ==
    {a \in [EnumNodes -> SUBSET EnumNodes] :
        /\ a[src_node] = {}
        /\ Levelled(a, {src_node}, {src_node}, 1)
               = {src_node} \cup {v \in EnumNodes : a[v] # {}}}

Reverse(s) == [i \in DOMAIN s |-> s[Len(s) + 1 - i]]

AncestorLists(anc_sets, reversed) ==
    [v \in {x \in EnumNodes : anc_sets[x] # {}} |->
        IF reversed THEN Reverse(SetToSeq(anc_sets[v])) ELSE SetToSeq(anc_sets[v])]

InitCall ==
    /\ InitWith(Network(ChainIds), <<"X", "Y">>, {"X", "Y"}, 0, 0, <<>>)
    /\ pc = "call"
    /\ \E src_node \in EnumNodes, reversed \in BOOLEAN :
         \E anc_sets \in AncestorSets(src_node) :
           \E dest_node \in {src_node} \cup {v \in EnumNodes : anc_sets[v] # {}} :
              call = [made |-> FALSE, dest_node |-> dest_node, src_node |-> src_node,
                      ancestors |-> AncestorLists(anc_sets, reversed), paths |-> <<>>]

\* paths = self.retrieve_all_paths(dest_node, src_node, ancestors)
retrieve_all_paths_call ==
    /\ pc = "call"
    /\ ~call.made
    /\ LET r == retrieve_all_paths(call.dest_node, call.src_node, call.ancestors,
                                   TRUE, path_dict)
       IN  /\ call' = [call EXCEPT !.made = TRUE, !.paths = r.paths]
           /\ path_dict' = r.memo
    /\ UNCHANGED <<gem, redgem, reduced_model, graph, config, rcore,
                   subsystem_reactions_id, subsystem_metabolites_id, pairwise,
                   min_distance_sub_to_sub, extracellular, removed, pc, loop, error>>

NextCall == retrieve_all_paths_call

SpecCall == InitCall /\ [][NextCall]_vars

Next ==
    \/ create_new_stoichiometric_matrix
    \/ extract_subsystem
    \/ breadth_search_subsystems_paths_length_d
    \/ breadth_search_extracellular_system_paths
    \/ extract_sub_network
    \/ find_min_distance_between_subsystems
    \/ extract_core_reactions

Spec == Init /\ [][Next]_vars

\* ================================================================== claims
RunBetweenDone ==
    pc \in {"run_extracellular_system", "extract_sub_network", "done", "error"}

GraphBuilt == pc \notin {"create_new_stoichiometric_matrix", "call"}

OnePath(m) == <<m>>

Interior(path) == {path[i] : i \in 2..(Len(path) - 1)}

Ends(path) == {path[1], path[Len(path)]}

\* ---- C1
RetainedReactions ==
    {gem[i].id : i \in {x \in DOMAIN gem : gem[x].subsystem \in core_subsystems}}
        \cup UNION {intermediate_reactions_id[i][j][k] : i \in Names, j \in Names, k \in 0..d}
        \cup UNION {intermediate_extracellular_reactions_id[i][k] : i \in Names, k \in 0..d}

\* C1: after extract_sub_network the to-remove reactions and the retained
\* reactions (core subsystems' reactions, intermediate reactions, extracellular
\* intermediate reactions) partition the reaction identifiers of the network.
C1_Partition ==
    pc = "done" =>
        /\ to_remove_reactions \cup RetainedReactions = GemReactionIds(gem)
        /\ to_remove_reactions \cap RetainedReactions = {}

\* ---- C2
\* C2 as stated: at depth 0 the (i,i) cell holds the one-node paths of
\* subsystem i's metabolites and every (i,j) cell with i # j is empty.
C2_DepthZeroDisjoint ==
    RunBetweenDone =>
        \A i \in Names, j \in Names :
            intermediate_paths[i][j][0] =
                IF i = j THEN {OnePath(m) : m \in subsystem_metabolites_id[i]} ELSE {}

\* C2 amended: at depth 0 the (i,j) cell holds the one-node paths of the
\* metabolites subsystems i and j share; it is empty exactly when they share none.
C2_DepthZeroShared ==
    RunBetweenDone =>
        \A i \in Names, j \in Names :
            intermediate_paths[i][j][0] =
                {OnePath(m) : m \in subsystem_metabolites_id[i] \cap subsystem_metabolites_id[j]}

C2_Witness ==
    /\ RunBetweenDone
    /\ \E i \in Names, j \in Names :
          /\ i # j
          /\ subsystem_metabolites_id[i] \cap subsystem_metabolites_id[j] # {}
          /\ subsystem_metabolites_id[i] \ subsystem_metabolites_id[j] # {}
          /\ intermediate_paths[i][j][0] # {}
          /\ intermediate_paths[i][i][0] # intermediate_paths[i][j][0]

\* ---- C3
SmallestDepth(i, j) ==
    IF \A k \in 0..d : intermediate_paths[i][j][k] = {} THEN -1
    ELSE CHOOSE k \in 0..d :
            /\ intermediate_paths[i][j][k] # {}
            /\ \A l \in 0..(k - 1) : intermediate_paths[i][j][l] = {}

\* C3: a call of find_min_distance_between_subsystems leaves, for every pair,
\* the smallest depth with a path, and -1 exactly when no depth has a path.
C3_MinDistance ==
    [][find_min_distance_between_subsystems =>
          \A i \in Names, j \in Names :
              min_distance_sub_to_sub'[i][j] = SmallestDepth(i, j)]_vars

C3_Witness ==
    /\ pc = "done"
    /\ d >= 3
    /\ \E i \in Names, j \in Names :
          /\ min_distance_sub_to_sub[i][j] = 2
          /\ intermediate_paths[i][j][3] # {}
          /\ min_distance_sub_to_sub[j][i] = -1

\* ---- C4
ConsistentPaths(dest_node, src_node, ancestors) ==
    {path \in UNION {[1..len -> EnumNodes] : len \in 1..(Cardinality(EnumNodes) + 1)} :
        /\ path[1] = src_node
        /\ path[Len(path)] = dest_node
        /\ \A i \in 2..Len(path) :
              /\ path[i] \in DOMAIN ancestors
              /\ path[i - 1] \in Range(ancestors[path[i]])}

\* C4: retrieve_all_paths returns every node sequence from src to dest in
\* which each later node has its predecessor among its ancestors, each once,
\* and nothing else.
C4_AllPaths ==
    call.made =>
        /\ Range(call.paths) = ConsistentPaths(call.dest_node, call.src_node, call.ancestors)
        /\ Cardinality(Range(call.paths)) = Len(call.paths)

C4_Witness ==
    /\ call.made
    /\ call.src_node = "A"
    /\ call.dest_node = "D"
    /\ call.ancestors = ("B" :> <<"A">>) @@ ("C" :> <<"A">>) @@ ("D" :> <<"B", "C">>)
    /\ Range(call.paths) = {<<"A", "B", "D">>, <<"A", "C", "D">>}

\* ---- C5
CellInteriorOnly(paths, metabolites) ==
    /\ metabolites = UNION {Interior(path) : path \in paths}
    /\ \A path \in paths : metabolites \cap Ends(path) = {}

\* C5: in every pairwise and every extracellular cell the intermediate
\* metabolites are exactly the interior nodes of the cell's paths, and none of
\* them is an end point of a path of the cell.
C5_InteriorOnly ==
    /\ \A i \in Names, j \in Names, k \in 0..d :
          CellInteriorOnly(intermediate_paths[i][j][k], intermediate_metabolites_id[i][j][k])
    /\ \A i \in Names, k \in 0..d :
          CellInteriorOnly(intermediate_extracellular_paths[i][k],
                           intermediate_extracellular_metabolites_id[i][k])

C5_Witness ==
    /\ \E i \in Names, j \in Names, k \in 0..d :
          /\ Cardinality(intermediate_metabolites_id[i][j][k]) >= 2
          /\ Cardinality(intermediate_paths[i][j][k]) >= 2
    /\ \E i \in Names, k \in 0..d : intermediate_extracellular_metabolites_id[i][k] # {}

\* ---- C6
Retained(rxn) ==
    {m \in DOMAIN rxn.metabolites :
        m \notin cofactor_pairs \cup small_metabolites \cup inorganics}

RetainedReactants(rxn) == {m \in Retained(rxn) : rxn.metabolites[m] < 0}

RetainedProducts(rxn) == {m \in Retained(rxn) : rxn.metabolites[m] > 0}

Induces(i, e) == e[1] \in RetainedReactants(gem[i]) /\ e[2] \in RetainedProducts(gem[i])

\* C6: the graph's edges are exactly the (reactant, product) pairs of the
\* reactions, each tagged with the last reaction of the network that induces
\* it, and its nodes are exactly the retained metabolites.
C6_Graph ==
    GraphBuilt =>
        /\ DOMAIN graph.edges =
              UNION {RetainedReactants(gem[i]) \X RetainedProducts(gem[i]) : i \in DOMAIN gem}
        /\ \A e \in DOMAIN graph.edges :
              \E i \in DOMAIN gem :
                  /\ Induces(i, e)
                  /\ graph.edges[e] = gem[i].id
                  /\ \A l \in DOMAIN gem : Induces(l, e) => l <= i
        /\ graph.nodes = UNION {Retained(gem[i]) : i \in DOMAIN gem}

C6_Witness ==
    /\ GraphBuilt
    /\ <<"A", "B">> \in DOMAIN graph.edges
    /\ graph.edges[<<"A", "B">>] = "rAB2"
    /\ "F" \in graph.nodes
    /\ \A e \in DOMAIN graph.edges : "F" \notin {e[1], e[2]}

\* ---- C7
ChainScenario ==
    /\ gem = Network(ChainIds)
    /\ subsystem_names = <<"X", "Y">>
    /\ d = 3

\* C7: on the chain A -> B -> C -> D with X = {A}, Y = {D} and d = 3 the run
\* leaves (X,Y,3) = {(A,B,C,D)}, intermediate metabolites {B,C}, intermediate
\* reactions rAB, rBC, rCD, nothing at depths 0, 1, 2, and a call of
\* find_min_distance_between_subsystems then gives distance 3.
C7_Chain ==
    /\ [](ChainScenario /\ RunBetweenDone =>
            /\ intermediate_paths["X"]["Y"][3] = {<<"A", "B", "C", "D">>}
            /\ intermediate_metabolites_id["X"]["Y"][3] = {"B", "C"}
            /\ intermediate_reactions_id["X"]["Y"][3] = {"rAB", "rBC", "rCD"}
            /\ \A k \in 0..2 : intermediate_paths["X"]["Y"][k] = {})
    /\ [][ChainScenario /\ RunBetweenDone /\ find_min_distance_between_subsystems =>
            min_distance_sub_to_sub'["X"]["Y"] = 3]_vars

C7_Witness ==
    /\ ChainScenario
    /\ pc = "done"
    /\ intermediate_paths["X"]["Y"][3] = {<<"A", "B", "C", "D">>}
    /\ min_distance_sub_to_sub["X"]["Y"] = 3

\* ---- C8
\* C8: after extract_sub_network every extracellular metabolite of the network
\* is outside the to-remove metabolites and still in the reduced network.
C8_ExtracellularKept ==
    pc = "done" =>
        \A m \in Range(extracellular_system) \cap GemMetaboliteIds(gem) :
            /\ m \notin to_remove_metabolites
            /\ m \in redgem.metabolites

\* ---- C9
\* C9: whatever d and n are, the extracellular searches raise no error (the
\* extracellular metabolites being nodes of the graph).
C9_NoError ==
    Range(extracellular_system) \subseteq UNION {Retained(gem[i]) : i \in DOMAIN gem}
        => error = "none"

\* ---- C10
IsEdgePath(path) ==
    \A i \in 1..(Len(path) - 1) : <<path[i], path[i + 1]>> \in DOMAIN graph.edges

NoRepeat(path) == \A i \in DOMAIN path, l \in DOMAIN path : path[i] = path[l] => i = l

\* C10: every path of an (i,j,k) cell, k >= 1, has k edges of the graph, no
\* repeated node, starts in subsystem i, ends in subsystem j, has no interior
\* node in subsystem j and, when i # j, no node but the first in subsystem i.
C10_PathShape ==
    \A i \in Names, j \in Names, k \in 1..d :
        \A path \in intermediate_paths[i][j][k] :
            /\ Len(path) = k + 1
            /\ IsEdgePath(path)
            /\ NoRepeat(path)
            /\ path[1] \in subsystem_metabolites_id[i]
            /\ path[Len(path)] \in subsystem_metabolites_id[j]
            /\ Interior(path) \cap subsystem_metabolites_id[j] = {}
            /\ i # j => \A p \in 2..Len(path) : path[p] \notin subsystem_metabolites_id[i]

C10_Witness ==
    \E i \in Names, j \in Names :
        /\ i # j
        /\ d >= 3
        /\ \E path \in intermediate_paths[i][j][3] :
              <<path[4], path[1]>> \in DOMAIN graph.edges

\* ---- C11
\* The extracellular search of subsystem_names[i] at depth k has run.
ExtracellularSearched(i, k) ==
    \/ pc \in {"extract_sub_network", "done"}
    \/ /\ pc \in {"run_extracellular_system", "error"}
       /\ i < loop.i \/ (i = loop.i /\ k < loop.k)

\* C11: every path of an extracellular (subsystem, k) cell, k >= 1, has k
\* edges, starts at an extracellular metabolite, holds no other one, has no
\* interior node in the subsystem and ends in the subsystem; once searched,
\* the (subsystem, 0) cell holds the one-node paths of the extracellular
\* metabolites that are metabolites of the subsystem.
C11_ExtracellularShape ==
    /\ \A s \in Names, k \in 1..d :
          \A path \in intermediate_extracellular_paths[s][k] :
              /\ Len(path) = k + 1
              /\ path[1] \in Range(extracellular_system)
              /\ \A p \in 2..Len(path) : path[p] \notin Range(extracellular_system)
              /\ Interior(path) \cap subsystem_metabolites_id[s] = {}
              /\ path[Len(path)] \in subsystem_metabolites_id[s]
    /\ \A i \in DOMAIN subsystem_names :
          ExtracellularSearched(i, 0) =>
              intermediate_extracellular_paths[subsystem_names[i]][0] =
                  {OnePath(m) : m \in Range(extracellular_system)
                                        \cap subsystem_metabolites_id[subsystem_names[i]]}

C11_Witness ==
    /\ pc = "done"
    /\ d >= 2
    /\ \E s \in Names :
          /\ intermediate_extracellular_paths[s][2] # {}
          /\ intermediate_extracellular_paths[s][1] # {}
    /\ \E s \in Names :
          /\ intermediate_extracellular_paths[s][0] # {}
          /\ Range(extracellular_system) \ subsystem_metabolites_id[s] # {}

\* ---- C12
\* The nodes the graph reaches from node a along at most l edges.
RECURSIVE Within(_, _)
Within(a, l) ==
    IF l = 0 THEN {a}
    ELSE LET w == Within(a, l - 1) IN w \cup UNION {adj(u) : u \in w \cap graph.nodes}

\* C12: every path recorded in an (i,j,k) cell is a minimal-length path between
\* its end points: the graph has no path of fewer than k edges from the first
\* node of the path to its last node.
C12_Minimal ==
    \A i \in Names, j \in Names, k \in 1..d :
        \A path \in intermediate_paths[i][j][k] :
            path[Len(path)] \notin Within(path[1], k - 1)

\* ---- C13
\* The call breadth_search_subsystems_paths_length_d(names[i], names[j], k) has run.
PairSearched(i, j, k) ==
    \/ pc \in {"run_extracellular_system", "extract_sub_network", "done", "error"}
    \/ /\ pc = "run_between_all_subsystems"
       /\ \/ i < loop.i
          \/ i = loop.i /\ j < loop.j
          \/ i = loop.i /\ j = loop.j /\ k < loop.k

\* The walks of k edges the graph has from node m.
RECURSIVE Walks(_, _)
Walks(m, k) ==
    IF k = 0 THEN {<<m>>}
    ELSE UNION {{Append(w, v) : v \in adj(w[Len(w)])} : w \in Walks(m, k - 1)}

\* The shortest paths of k edges from subsystem a to subsystem b whose interior
\* nodes are outside both subsystems.
TiedShortest(a, b, k) ==
    UNION {{w \in Walks(m, k) :
               /\ w[Len(w)] \in subsystem_metabolites_id[b]
               /\ w[Len(w)] \notin Within(m, k - 1)
               /\ Interior(w) \cap (subsystem_metabolites_id[a]
                                       \cup subsystem_metabolites_id[b]) = {}} :
           m \in subsystem_metabolites_id[a] \cap graph.nodes}

\* C13: no tied shortest path is dropped: for subsystems i # j with disjoint
\* metabolite sets and k in 1..d, every shortest path of k edges from a
\* metabolite of i to a metabolite of j with all interior nodes outside both
\* sets is in the (i,j,k) cell once that cell has been searched.
C13_NoTieDropped ==
    \A i \in DOMAIN subsystem_names, j \in DOMAIN subsystem_names, k \in 1..d :
        LET a == subsystem_names[i]
            b == subsystem_names[j]
        IN  (/\ i # j
             /\ PairSearched(i, j, k)
             /\ subsystem_metabolites_id[a] \cap subsystem_metabolites_id[b] = {})
                => TiedShortest(a, b, k) \subseteq intermediate_paths[a][b][k]

C13_Witness ==
    /\ pc = "done"
    /\ d >= 2
    /\ \E i \in DOMAIN subsystem_names, j \in DOMAIN subsystem_names :
          LET a == subsystem_names[i]
              b == subsystem_names[j]
          IN  /\ i # j
              /\ subsystem_metabolites_id[a] \cap subsystem_metabolites_id[b] = {}
              /\ \E p \in TiedShortest(a, b, 2), q \in TiedShortest(a, b, 2) :
                    /\ p # q
                    /\ p[1] = q[1]
                    /\ p[3] = q[3]
                    /\ {p, q} \subseteq intermediate_paths[a][b][2]

\* ---- C14
\* The successive states (frontier, explored, ancestors) of one search: the
\* start and the state after each pass of the expansion loop.
RECURSIVE SubsystemTrace(_, _, _, _, _, _)
SubsystemTrace(s, i, subsystem_i, subsystem_j, dd, order) ==
    IF i >= dd THEN <<s>>
    ELSE <<s>> \o SubsystemTrace(expand_subsystems(s, i, subsystem_i, subsystem_j, dd, order),
                                 i + 1, subsystem_i, subsystem_j, dd, order)

RECURSIVE ExtracellularTrace(_, _, _, _, _)
ExtracellularTrace(s, i, subsystem, nn, order) ==
    IF i >= nn THEN <<s>>
    ELSE <<s>> \o ExtracellularTrace(expand_extracellular(s, i, subsystem, nn, order),
                                     i + 1, subsystem, nn, order)

\* The orders in which the search from m can iterate its frontiers.
SubsystemOrders(m, subsystem_i, subsystem_j, dd) ==
    IterationOrders(frontiers_subsystems(BfsStart(m), 0, subsystem_i, subsystem_j, dd))

ExtracellularOrders(m, subsystem, nn) ==
    IterationOrders(frontiers_extracellular(BfsStart(m), 0, subsystem, nn))

\* One expansion step: exactly the new frontier receives ancestors, the lists
\* recorded before are left alone, every ancestor is in the previous frontier,
\* no ancestor is listed twice and the source has none.
AncestorsStep(prev, next, src_node) ==
    /\ DOMAIN next.ancestors = (DOMAIN prev.ancestors) \cup next.frontier
    /\ next.frontier \cap DOMAIN prev.ancestors = {}
    /\ \A v \in DOMAIN prev.ancestors : next.ancestors[v] = prev.ancestors[v]
    /\ \A v \in next.frontier :
          /\ next.ancestors[v] # <<>>
          /\ Range(next.ancestors[v]) \subseteq prev.frontier
          /\ NoRepeat(next.ancestors[v])
    /\ src_node \notin DOMAIN next.ancestors

\* Every step of the search is an AncestorsStep, and the enumeration from
\* every node of the final frontier returns paths from the source to it.
AncestorsTrace(tr, src_node) ==
    /\ \A t \in 1..(Len(tr) - 1) : AncestorsStep(tr[t], tr[t + 1], src_node)
    /\ \A node \in tr[Len(tr)].frontier :
          LET r == retrieve_all_paths(node, src_node, tr[Len(tr)].ancestors, TRUE, EmptyMap)
          IN  /\ r.paths # <<>>
              /\ \A q \in DOMAIN r.paths :
                    /\ Len(r.paths[q]) = Len(tr)
                    /\ r.paths[q][1] = src_node
                    /\ r.paths[q][Len(tr)] = node

SearchesOver == pc \in {"extract_sub_network", "done", "error"}

\* C14: in every search the run has made (between subsystems or from the
\* extracellular metabolites), at every expansion step: a node receives
\* ancestors in at most one step, all its ancestors are in the frontier of the
\* preceding step, none is listed twice, the source has none, and the
\* enumeration from every final-frontier node ends at the source.
C14_Ancestors ==
    SearchesOver =>
        /\ \A i \in Names, j \in Names, k \in 0..d :
              \A m \in subsystem_metabolites_id[i] :
                  \A order \in SubsystemOrders(m, i, j, k) :
                      AncestorsTrace(SubsystemTrace(BfsStart(m), 0, i, j, k, order), m)
        /\ \A i \in DOMAIN subsystem_names, k \in 0..n :
              (ExtracellularSearched(i, k) \/ (i = loop.i /\ k = loop.k)) =>
                  \A m \in Range(extracellular_system) \cap graph.nodes :
                      \A order \in ExtracellularOrders(m, subsystem_names[i], k) :
                          AncestorsTrace(
                              ExtracellularTrace(BfsStart(m), 0, subsystem_names[i], k,
                                                 order), m)

\* A search of two or more steps in which a node of the final frontier has two
\* ancestors and a node explored earlier is met again.
C14_Witness ==
    /\ pc = "done"
    /\ \E i \in Names, j \in Names, k \in 2..d :
          \E m \in subsystem_metabolites_id[i] :
              LET tr == SubsystemTrace(BfsStart(m), 0, i, j, k, MetOrder)
                  last == tr[k + 1]
              IN  /\ \E v \in last.frontier : Len(last.ancestors[v]) >= 2
                  /\ \E t \in 2..k : \E u \in tr[t].frontier :
                        adj(u) \cap tr[t].explored # {}

\* ---- C15
\* rxn_id is the tag of a graph edge between two consecutive nodes of a path of paths.
OnPathEdge(rxn_id, paths) ==
    \E path \in paths : \E p \in 1..(Len(path) - 1) :
        /\ <<path[p], path[p + 1]>> \in DOMAIN graph.edges
        /\ graph.edges[<<path[p], path[p + 1]>>] = rxn_id

\* C15: at every point of a run, every reaction identifier of an intermediate
\* set (pairwise or extracellular) is the rxn_id of a graph edge joining two
\* consecutive nodes of a path of the same cell, and every intermediate
\* metabolite identifier is a node of the graph.
C15_InGraph ==
    /\ \A i \in Names, j \in Names, k \in 0..d :
          /\ \A r \in intermediate_reactions_id[i][j][k] :
                OnPathEdge(r, intermediate_paths[i][j][k])
          /\ intermediate_metabolites_id[i][j][k] \subseteq graph.nodes
    /\ \A i \in Names, k \in 0..d :
          /\ \A r \in intermediate_extracellular_reactions_id[i][k] :
                OnPathEdge(r, intermediate_extracellular_paths[i][k])
          /\ intermediate_extracellular_metabolites_id[i][k] \subseteq graph.nodes

C15_Witness ==
    /\ pc = "done"
    /\ \E i \in Names, j \in Names, k \in 0..d :
          /\ Cardinality(intermediate_reactions_id[i][j][k]) >= 2
          /\ intermediate_metabolites_id[i][j][k] # {}
    /\ \E i \in Names, k \in 0..d :
          /\ intermediate_extracellular_reactions_id[i][k] # {}
          /\ intermediate_extracellular_metabolites_id[i][k] # {}

\* ---- C16
PrunerStep == pc = "extract_sub_network" /\ pc' = "done"

\* C16: during run() the original network never changes, the graph does not
\* change once create_new_stoichiometric_matrix has returned, and the reduced
\* network changes only in extract_sub_network, which removes the reactions of
\* its to-remove set and no metabolite directly: a metabolite leaves only when
\* the removed reactions were the last ones it occurred in.
C16_Frame ==
    /\ [][gem' = gem]_vars
    /\ [][GraphBuilt => graph' = graph]_vars
    /\ [][redgem' # redgem => PrunerStep]_vars
    /\ [][PrunerStep =>
              /\ redgem'.reactions = redgem.reactions \ to_remove_reactions'
              /\ \A m \in redgem.metabolites \ redgem'.metabolites :
                    /\ m \in ReactionMetabolites(redgem.reactions \ redgem'.reactions)
                    /\ m \notin ReactionMetabolites(redgem'.reactions)
              /\ to_remove_metabolites' \cap ReactionMetabolites(redgem'.reactions)
                     \subseteq redgem'.metabolites]_vars

\* The pruner has removed reactions, and a metabolite of its to-remove set is
\* still in the reduced network.
C16_Witness ==
    /\ pc = "done"
    /\ to_remove_reactions # {}
    /\ redgem.reactions # GemReactionIds(gem)
    /\ GemMetaboliteIds(gem) \ redgem.metabolites # {}
    /\ to_remove_metabolites \cap redgem.metabolites # {}

\* ---- C17
\* The paths of one search from src_node, each top-level enumeration starting
\* from an empty memo; at depth 0 a source outside the destination set has an
\* empty frontier.
FreshPaths(tr, src_node, destinations) ==
    LET last == tr[Len(tr)]
        frontier == IF Len(tr) = 1 /\ src_node \notin destinations THEN {}
                    ELSE last.frontier
    IN  UNION {Range(retrieve_all_paths(node, src_node, last.ancestors, TRUE,
                                        EmptyMap).paths) : node \in frontier}

\* C17: the path memo never leaks between searches: once the searches of a
\* run are over, the paths it has recorded in a cell, with the memo of each call left in place for the next,
\* are exactly those each top-level call yields from its own destination,
\* source and ancestors map alone, and the memo holds paths of the last
\* source only.
C17_NoLeak ==
    /\ SearchesOver =>
          /\ \A i \in DOMAIN subsystem_names, j \in DOMAIN subsystem_names, k \in 0..d :
                LET a == subsystem_names[i]
                    b == subsystem_names[j]
                IN  PairSearched(i, j, k) =>
                        intermediate_paths[a][b][k] =
                            UNION {FreshPaths(SubsystemTrace(BfsStart(m), 0, a, b, k, MetOrder), m,
                                              subsystem_metabolites_id[b]) :
                                   m \in subsystem_metabolites_id[a]}
          /\ \A i \in DOMAIN subsystem_names, k \in 0..d :
                LET a == subsystem_names[i]
                IN  (k <= n /\ ExtracellularSearched(i, k)) =>
                        intermediate_extracellular_paths[a][k] =
                            UNION {FreshPaths(ExtracellularTrace(BfsStart(m), 0, a, k, MetOrder), m,
                                              subsystem_metabolites_id[a]) :
                                   m \in Range(extracellular_system)}
    /\ \A node \in DOMAIN path_dict : \A q \in DOMAIN path_dict[node] :
          \A other \in DOMAIN path_dict : \A r \in DOMAIN path_dict[other] :
              path_dict[node][q][1] = path_dict[other][r][1]

\* Two sources of one cell reach the same node, so that the memo of the first
\* search has an entry for a node the second search asks for.
C17_Witness ==
    /\ pc = "done"
    /\ path_dict # EmptyMap
    /\ \E i \in Names, j \in Names, k \in 1..d :
          \E p \in intermediate_paths[i][j][k], q \in intermediate_paths[i][j][k] :
              /\ p[1] # q[1]
              /\ \E x \in 2..Len(p) : \E y \in 2..Len(q) : p[x] = q[y]


====
